---- MODULE Spec2Model ----
(***************************************************************************)
(* A model of raydium_parser.parse_block: the single-pass walk over the    *)
(* transactions of a confirmed block, the classification of each top-level *)
(* and inner instruction, the decoding of the swap payload, the choice of  *)
(* the pool vault indices and the assembly of the RaydiumSwap record.      *)
(*                                                                         *)
(* parse_block is a generator: its state is its loop position, its locals  *)
(* and its counters.  The block is consumed one element at a time, so the  *)
(* actions draw the next element (a transaction, an instruction) from the  *)
(* input sets; the record handed to the consumer by a step is `yielded`.   *)
(***************************************************************************)
EXTENDS Integers, Sequences, FiniteSets, TLC

VARIABLES
    pc,                 \* position of the generator
    slot,               \* the slot argument
    tx_index,           \* enumerate index of the current / next transaction
    tx,                 \* the current transaction (message, meta, signatures)
    was_successful,     \* meta.err is None
    all_account_keys,   \* static ++ loaded writable ++ loaded readonly
    set_index,          \* position in meta.inner_instructions
    ix_index,           \* enumerate index of the next instruction of the list
    ix,                 \* the instruction the last step processed
    level,              \* "main" | "inner" | "none": the list ix came from
    yielded,            \* <<swap>> when the last step yielded one, else << >>
    branch,             \* how the last pass of an instruction loop ended
    swaps_found,
    instruction_count,
    failed_swaps,
    tx_flags,           \* history: was_successful of the records of this tx
    seen                \* history: instructions consumed so far, by class

vars == <<pc, slot, tx_index, tx, was_successful, all_account_keys, set_index,
          ix_index, ix, level, yielded, branch, swaps_found, instruction_count,
          failed_swaps, tx_flags, seen>>

----------------------------------------------------------------------------
(* Program constants *)

AMM_V4  == "675kPX9MHTjS2zt1qfr1NYHuzeLXfQM9H24wFSUt1Mp8"
CPMM    == "CPMMoo8L3F4NbTegBCKVNunggL7H1ZpdTHKxQB5qKP1C"
STABLE  == "5quBtoiQqxF9Jv6KYKctB59NT3gtJD2Y65kdnB1Uev3h"
CLMM    == "CAMMCzo5YL8w4VFF8KVHrK22GGUsp5VTaW7grrKgrWqK"
ROUTING == "routeUGWgWzqBWFcrCfv8tritsqukccJPu3q5GPP3xS"
AMM_V3  == "27haf8L6oxUeXrHrgEgsexjSY5hbVUWEmvv9Nyxg8vQv"
AMM_V2  == "EhhTKczWMGQt46ynNeRX1WfeagwwJd7ufHvCDjRxjo5Q"
VAULT   == "RVKd61ztZW9GUwhRbbLoYVRE5Xf1B2tVscKqwZqXgEr"

RAYDIUM_PROGRAMS ==
    {AMM_V4, CPMM, STABLE, CLMM, ROUTING, AMM_V3, AMM_V2, VAULT}

SWAP_INSTRUCTION_DISCRIMINATOR == {9, 11, 1, 2, 4, 5, 6, 7}

CL_DISCRIMINATOR == {4, 5, 6, 7}

\* A program that is not a Raydium program (the system program).
SYSTEM == "11111111111111111111111111111111"

----------------------------------------------------------------------------
(* Python sequence primitives.  Python indices are 0-based.                *)

Min(a, b) == IF a < b THEN a ELSE b

\* s[lo:hi] for 0 <= lo <= hi: a slice is clipped to the sequence, it never
\* raises.
Slice(s, lo, hi) == SubSeq(s, lo + 1, Min(hi, Len(s)))

\* s[i]: [ok |-> FALSE] stands for IndexError; a negative index counts from
\* the end.
PyIndex(s, i) ==
    IF i >= 0 /\ i < Len(s) THEN [ok |-> TRUE, val |-> s[i + 1]]
    ELSE IF i < 0 /\ -i <= Len(s) THEN [ok |-> TRUE, val |-> s[Len(s) + i + 1]]
    ELSE [ok |-> FALSE]

\* int.from_bytes(b, "little")
RECURSIVE FromBytesLittle(_)
FromBytesLittle(b) ==
    IF b = << >> THEN 0 ELSE Head(b) + 256 * FromBytesLittle(Tail(b))

\* int(s) of a decimal string, given as its digits.
RECURSIVE IntOfDigits(_, _)
IntOfDigits(s, acc) ==
    IF s = << >> THEN acc ELSE IntOfDigits(Tail(s), 10 * acc + Head(s))

PyInt(s) == IntOfDigits(s, 0)

----------------------------------------------------------------------------
(* base58.b58decode.  A base58 string is the sequence of its characters'   *)
(* positions in the alphabet (0..57); any other value is a character that  *)
(* is not in the alphabet.  The integer the string denotes is kept as a    *)
(* sequence of 24-bit limbs, least significant first and without high zero *)
(* limbs, so that no intermediate value overflows.                         *)

B58_BASE == 58

Limb == 256 * 256 * 256

RECURSIVE LeadingZeros(_)
LeadingZeros(s) ==
    IF s # << >> /\ Head(s) = 0 THEN 1 + LeadingZeros(Tail(s)) ELSE 0

StripZeros(be) == SubSeq(be, LeadingZeros(be) + 1, Len(be))

\* limbs * m + c
RECURSIVE MulAdd(_, _, _)
MulAdd(limbs, m, c) ==
    IF limbs = << >>
    THEN IF c = 0 THEN << >> ELSE <<c>>
    ELSE LET v == Head(limbs) * m + c
         IN  <<v % Limb>> \o MulAdd(Tail(limbs), m, v \div Limb)

\* b58decode_int: acc = acc * 58 + digit, over the characters.
RECURSIVE B58DecodeInt(_, _)
B58DecodeInt(chars, acc) ==
    IF chars = << >> THEN acc
    ELSE B58DecodeInt(Tail(chars), MulAdd(acc, B58_BASE, Head(chars)))

\* acc.to_bytes((acc.bit_length() + 7) // 8, "big")
RECURSIVE ToBytesBig(_)
ToBytesBig(limbs) ==
    IF limbs = << >> THEN << >>
    ELSE LET l == Head(limbs)
         IN  ToBytesBig(Tail(limbs)) \o <<l \div 65536, (l \div 256) % 256, l % 256>>

\* [ok |-> FALSE] stands for ValueError("Invalid character").  The leading
\* '1' characters (position 0) give as many leading zero bytes.
B58Decode(chars) ==
    IF \E i \in 1..Len(chars) : chars[i] \notin 0..(B58_BASE - 1)
    THEN [ok |-> FALSE]
    ELSE LET z    == LeadingZeros(chars)
             rest == SubSeq(chars, z + 1, Len(chars))
         IN  [ok  |-> TRUE,
              val |-> [i \in 1..z |-> 0]
                      \o StripZeros(ToBytesBig(B58DecodeInt(rest, << >>)))]

(* The block source's transport encoding (base58.b58encode), which the     *)
(* input sets use to build the `data` of an instruction from its payload.  *)

\* Long division of a big-endian byte sequence by 58: quotient and remainder.
RECURSIVE DivMod58(_, _, _)
DivMod58(be, q, r) ==
    IF be = << >> THEN [q |-> q, r |-> r]
    ELSE LET v == r * 256 + Head(be)
         IN  DivMod58(Tail(be), q \o <<v \div B58_BASE>>, v % B58_BASE)

RECURSIVE B58EncodeInt(_, _)
B58EncodeInt(be, chars) ==
    IF be = << >> THEN chars
    ELSE LET d == DivMod58(be, << >>, 0)
         IN  B58EncodeInt(StripZeros(d.q), <<d.r>> \o chars)

B58Encode(bytes) ==
    [i \in 1..LeadingZeros(bytes) |-> 0] \o B58EncodeInt(StripZeros(bytes), << >>)

----------------------------------------------------------------------------
(* Values.  An optional value (None or a value) is a sequence of length 0  *)
(* or 1.  A dict is a record; d.get(k, default) is Get.                    *)

None == << >>

Get(d, k, default) == IF k \in DOMAIN d THEN d[k] ELSE default

\* The call context the parse functions pass along unchanged:
\* slot, tx_index, ix_index, was_successful, all_account_keys.
Context(slot_, tx_index_, ix_index_, was_successful_, account_keys) ==
    [slot |-> slot_, tx_index |-> tx_index_, ix_index |-> ix_index_,
     was_successful |-> was_successful_, all_account_keys |-> account_keys]

\* The record with index_in_slot and index_in_tx taken from each other's
\* argument.
RaydiumSwap_indices_swapped(c, signature, mint_in, mint_out, amount_in, amount_out, limit_amount, limit_side, bal_in, bal_out) ==
    [slot |-> c.slot, index_in_slot |-> c.ix_index,
     index_in_tx |-> c.tx_index, signature |-> signature,
     was_successful |-> c.was_successful,
     mint_in |-> mint_in, mint_out |-> mint_out,
     amount_in |-> amount_in, amount_out |-> amount_out,
     limit_amount |-> limit_amount, limit_side |-> limit_side,
     post_pool_balance_mint_in |-> bal_in,
     post_pool_balance_mint_out |-> bal_out]

RaydiumSwap(c, signature, mint_in, mint_out, amount_in, amount_out, limit_amount, limit_side, bal_in, bal_out) ==
    [slot |-> c.slot, index_in_slot |-> c.tx_index,
     index_in_tx |-> c.ix_index, signature |-> signature,
     was_successful |-> c.was_successful,
     mint_in |-> mint_in, mint_out |-> mint_out,
     amount_in |-> amount_in, amount_out |-> amount_out,
     limit_amount |-> limit_amount, limit_side |-> limit_side,
     post_pool_balance_mint_in |-> bal_in,
     post_pool_balance_mint_out |-> bal_out]

----------------------------------------------------------------------------
(* The decoding pipeline.  A function that can raise returns a record with *)
(* ok |-> FALSE for the exception.                                         *)

\* The loaded readonly addresses appended before the writable ones.
resolve_account_keys_readonly_first(t) ==
    IF t.loaded.present
    THEN t.static \o t.loaded.readonly \o t.loaded.writable
    ELSE t.static

\* Lines 93-99: the account list the indices of a transaction resolve in.
resolve_account_keys(t) ==
    IF t.loaded.present
    THEN t.static \o t.loaded.writable \o t.loaded.readonly
    ELSE t.static

\* _parse_swap_instruction: (amount_in, min_amount_out) or ValueError.
parse_swap_instruction(i) ==
    LET amounts(data) ==
          IF Len(data) >= 33 /\ data[1] \in CL_DISCRIMINATOR
          THEN IF data[1] \in {4, 5}
               THEN [ok |-> TRUE,
                     amount_in      |-> FromBytesLittle(Slice(data, 1, 9)),
                     min_amount_out |-> FromBytesLittle(Slice(data, 9, 17))]
               ELSE IF data[1] = 6
               THEN [ok |-> TRUE,
                     amount_in      |-> FromBytesLittle(Slice(data, 1, 9)),
                     min_amount_out |-> FromBytesLittle(Slice(data, 17, 25))]
               ELSE [ok |-> TRUE,
                     amount_in      |-> FromBytesLittle(Slice(data, 9, 17)),
                     min_amount_out |-> FromBytesLittle(Slice(data, 1, 9))]
          ELSE IF Len(data) >= 17 /\ data[1] \in SWAP_INSTRUCTION_DISCRIMINATOR
          THEN [ok |-> TRUE,
                amount_in      |-> FromBytesLittle(Slice(data, 1, 9)),
                min_amount_out |-> FromBytesLittle(Slice(data, 9, 17))]
          ELSE [ok |-> FALSE]
        decoded(d) == IF ~d.ok THEN [ok |-> FALSE] ELSE amounts(d.val)
    IN  decoded(B58Decode(i.data))

\* determine_pool_indices_generic: (pool_in_index, pool_out_index) or
\* ValueError.
determine_pool_indices_generic(i) ==
    LET accounts == i.accounts IN
    IF Len(accounts) = 0 THEN [ok |-> FALSE]
    ELSE IF Len(accounts) >= 13
    THEN [ok |-> TRUE, pool_in_index |-> accounts[8],
          pool_out_index |-> accounts[9]]
    ELSE IF Len(accounts) >= 7
    THEN [ok |-> TRUE, pool_in_index |-> accounts[6],
          pool_out_index |-> accounts[7]]
    ELSE [ok |-> FALSE]

\* _is_valid_swap_instruction: every exception inside it gives False.
is_valid_swap_instruction(i) ==
    LET valid(data) ==
          IF Len(data) < 1 THEN FALSE
          ELSE IF Len(data) >= 33 /\ data[1] \in CL_DISCRIMINATOR
          THEN Len(i.accounts) >= 13
          ELSE IF Len(data) >= 17 /\ data[1] \in SWAP_INSTRUCTION_DISCRIMINATOR
          THEN Len(i.accounts) >= 7
          ELSE FALSE
        decoded(d) == IF ~d.ok THEN FALSE ELSE valid(d.val)
    IN  decoded(B58Decode(i.data))

\* The loop over meta.post_token_balances (lines 299-306): the last entry of
\* an index wins, and an entry of pool_in_index is never taken for
\* pool_out_index.  The balances start as the integer 0.
RECURSIVE scan_post_balances(_, _, _, _)
scan_post_balances(balances, pool_in_index, pool_out_index, acc) ==
    IF balances = << >> THEN acc
    ELSE LET balance == Head(balances)
             next == IF balance.account_index = pool_in_index
                     THEN [acc EXCEPT !.pool_in_balance = balance.amount]
                     ELSE IF balance.account_index = pool_out_index
                     THEN [acc EXCEPT !.pool_out_balance = balance.amount]
                     ELSE acc
         IN  scan_post_balances(Tail(balances), pool_in_index, pool_out_index,
                                next)

pool_balances(t, pool_in_index, pool_out_index) ==
    scan_post_balances(t.post_token_balances, pool_in_index, pool_out_index,
                       [pool_in_balance |-> <<0>>, pool_out_balance |-> <<0>>])

\* Lines 308-326 (and 367-385, 427-447): the mints, the signature and the
\* record.  The IndexError of a list access is caught by the caller's except
\* clause, which returns None (lines 327-329, 386-388, 448-450).
assemble_swap(t, c, amount_in, min_amount_out, pool_in_index, pool_out_index) ==
    LET b         == pool_balances(t, pool_in_index, pool_out_index)
        mint_in   == PyIndex(c.all_account_keys, pool_in_index)
        mint_out  == PyIndex(c.all_account_keys, pool_out_index)
        signature == PyIndex(t.signatures, 0)
    IN  IF ~mint_in.ok \/ ~mint_out.ok \/ ~signature.ok THEN None
        ELSE <<RaydiumSwap(c, signature.val, mint_in.val, mint_out.val,
                           amount_in, min_amount_out, min_amount_out, "mint_out",
                           PyInt(b.pool_in_balance), PyInt(b.pool_out_balance))>>

\* The try block of parse_raydium_swap_from_ui_compiled_instruction (lines
\* 295-326) and of parse_raydium_swap_from_compiled_instruction (355-385).
compiled_swap(i, t, c) ==
    LET build(p, q) ==
          IF ~p.ok \/ ~q.ok THEN None
          ELSE assemble_swap(t, c, p.amount_in, p.min_amount_out,
                             q.pool_in_index, q.pool_out_index)
    IN  build(parse_swap_instruction(i), determine_pool_indices_generic(i))

parse_raydium_swap_from_ui_compiled_instruction(i, t, c) ==
    IF ~is_valid_swap_instruction(i) THEN None ELSE compiled_swap(i, t, c)

\* A CompiledInstruction always has a data attribute (line 347).
parse_raydium_swap_from_compiled_instruction(i, t, c) ==
    IF ~is_valid_swap_instruction(i) THEN None ELSE compiled_swap(i, t, c)

\* determine_pool_indices_for_parsed
determine_pool_indices_for_parsed(i) ==
    IF i.parsed.is_dict
    THEN [pool_in_index  |-> Get(i.parsed.fields, "poolInIndex", -1),
          pool_out_index |-> Get(i.parsed.fields, "poolOutIndex", -1)]
    ELSE [pool_in_index |-> -1, pool_out_index |-> -1]

parse_raydium_swap_from_ui_parsed_instruction(i, t, c) ==
    IF ~i.parsed.is_dict \/ Get(i.parsed.fields, "type", "") # "swap"
    THEN None
    ELSE LET amount_in      == Get(i.parsed.fields, "amountIn", 0)
             min_amount_out == Get(i.parsed.fields, "minAmountOut", 0)
             q == determine_pool_indices_for_parsed(i)
         IN  IF \/ q.pool_in_index >= Len(c.all_account_keys)
                \/ q.pool_out_index >= Len(c.all_account_keys)
             THEN None
             ELSE assemble_swap(t, c, amount_in, min_amount_out,
                                q.pool_in_index, q.pool_out_index)

\* extract_program_id_from_parsed
extract_program_id_from_parsed(i) ==
    IF i.parsed.is_dict THEN Get(i.parsed.fields, "programId", "") ELSE ""

try_parse_raydium_swap(i, t, c) ==
    IF i.kind = "UiParsed"
    THEN parse_raydium_swap_from_ui_parsed_instruction(i, t, c)
    ELSE IF i.kind = "Compiled"
    THEN parse_raydium_swap_from_compiled_instruction(i, t, c)
    ELSE parse_raydium_swap_from_ui_compiled_instruction(i, t, c)

----------------------------------------------------------------------------
(* The block walker: parse_block.                                          *)

\* Lines 107-112: the program id of an instruction; ok |-> FALSE is the
\* `continue` of an out-of-bounds program_id_index.
program_id_of(i, account_keys) ==
    IF i.kind = "UiParsed"
    THEN [ok |-> TRUE, val |-> extract_program_id_from_parsed(i)]
    ELSE IF i.program_id_index >= Len(account_keys) THEN [ok |-> FALSE]
    ELSE [ok |-> TRUE, val |-> account_keys[i.program_id_index + 1]]

\* Any non-empty program id taken for a Raydium program.
is_raydium_program_nonempty(program_id) == program_id # ""

\* Line 114: program_id in RAYDIUM_PROGRAMS
is_raydium_program(program_id) == program_id \in RAYDIUM_PROGRAMS

\* A failed parse that leaves parse_block as an exception.
failed_parse_raises(program_id) ==
    [kind |-> "raise", program_id |-> program_id, swap |-> None]

\* A try_parse_raydium_swap that could not parse is counted as a failed swap
\* of its program (lines 121-122, 151-152).
failed_parse(program_id) ==
    [kind |-> "failed", program_id |-> program_id, swap |-> None]

\* The body of the loop over instructions (lines 104-125, 132-156): what one
\* instruction does to the walk.  kind is "skip" (nothing), "yield", "failed"
\* or "raise" (an exception leaves parse_block); every exception of the body
\* is caught (lines 123-125, 153-156).
process_instruction(i, t, c) ==
    LET pid == program_id_of(i, c.all_account_keys)
        outcome(swap) ==
          IF swap # None
          THEN [kind |-> "yield", program_id |-> pid.val, swap |-> swap]
          ELSE failed_parse(pid.val)
    IN  IF ~pid.ok \/ ~is_raydium_program(pid.val)
        THEN [kind |-> "skip", program_id |-> "", swap |-> None]
        ELSE outcome(try_parse_raydium_swap(i, t, c))

Range(f) == {f[x] : x \in DOMAIN f}

NoIx == [kind |-> "none"]
NoTx == [kind |-> "none"]


----------------------------------------------------------------------------
(* The inputs: the transactions and instructions a block is made of.       *)

\* An 8-byte little-endian unsigned integer (values below 65536).
LE8(v) == <<v % 256, v \div 256, 0, 0, 0, 0, 0, 0>>

\* A payload of n bytes: the discriminator and four 8-byte fields.
Payload(disc, f, n) ==
    SubSeq(<<disc>> \o LE8(f[1]) \o LE8(f[2]) \o LE8(f[3]) \o LE8(f[4]), 1, n)

\* The four quantities of the payloads: all different, so that the field a
\* decoder read is known from the value it returned.
Fields == <<111, 300, 70, 9>>

\* The decimal string of a token amount.
RECURSIVE Dec(_)
Dec(n) == IF n < 10 THEN <<n>> ELSE Dec(n \div 10) \o <<n % 10>>

\* An account list of n entries whose positions 5, 6, 7, 8 hold v.
Accounts(n, v) ==
    [k \in 1..n |-> IF k \in 6..9 THEN v[k - 5] ELSE 0]

CompiledIx(kind, program_id_index, payload, accounts) ==
    [kind |-> kind, program_id_index |-> program_id_index,
     accounts |-> accounts, data |-> B58Encode(payload)]

\* data with a character that is not in the base58 alphabet.
BadDataIx(kind, program_id_index, accounts) ==
    [kind |-> kind, program_id_index |-> program_id_index,
     accounts |-> accounts, data |-> <<9, 58, 3>>]

\* A field of a structured mapping: present (opt = <<value>>) or absent.
Field(k, opt) == IF opt = << >> THEN << >> ELSE k :> opt[1]

ParsedIx(type, program_id, pool_in, pool_out, amount_in, min_amount_out) ==
    [kind |-> "UiParsed",
     parsed |-> [is_dict |-> TRUE,
                 fields |-> Field("type", type) @@ Field("programId", program_id)
                            @@ Field("poolInIndex", pool_in)
                            @@ Field("poolOutIndex", pool_out)
                            @@ Field("amountIn", amount_in)
                            @@ Field("minAmountOut", min_amount_out)]]

\* A UiParsedInstruction whose `parsed` is not a dict.
ParsedNotDictIx == [kind |-> "UiParsed", parsed |-> [is_dict |-> FALSE]]

\* The account keys: indices 0..3 static, 4..5 loaded writable, 6..7 loaded
\* readonly.
StaticKeys   == <<"payer", AMM_V4, "vaultA", SYSTEM>>
WritableKeys == <<"vaultB", "vaultC">>
ReadonlyKeys == <<CLMM, "vaultD">>

Loaded    == [present |-> TRUE, writable |-> WritableKeys, readonly |-> ReadonlyKeys]
NotLoaded == [present |-> FALSE]
\* loaded addresses with an empty readonly list
LoadedWritable == [present |-> TRUE, writable |-> WritableKeys, readonly |-> << >>]

Balance(account_index, mint, amount) ==
    [account_index |-> account_index, mint |-> mint, amount |-> Dec(amount)]

\* Token balance snapshots of the vaults at indices 2, 4, 5, 7.
Balances(a2, a4, a5, a7) ==
    <<Balance(2, "mintA", a2), Balance(4, "mintB", a4),
      Balance(5, "mintC", a5), Balance(7, "mintD", a7)>>

Tx(loaded, err, signatures, pre, post) ==
    [kind |-> "tx", static |-> StaticKeys, loaded |-> loaded, err |-> err,
     signatures |-> signatures,
     pre_token_balances |-> pre, post_token_balances |-> post]

Pre  == Balances(1000, 500, 300, 700)
\* index 2 falls by 100, index 4 rises by 100, 5 is unchanged, 7 falls by 50
PostA == Balances(900, 600, 300, 650)
\* index 2 rises, index 4 falls, 5 rises, 7 rises
PostB == Balances(1200, 400, 310, 720)
\* no entry of index 4 and none of index 7
PostC == <<Balance(2, "mintA", 900), Balance(5, "mintC", 300)>>

TxBase   == Tx(Loaded, FALSE, <<"sig1", "sig2">>, Pre, PostA)
TxFailed == Tx(Loaded, TRUE, <<"sig3">>, Pre, PostA)

TxWide ==
    { TxBase, TxFailed,
      Tx(Loaded, FALSE, <<"sig1">>, Pre, PostB),
      Tx(Loaded, FALSE, <<"sig1">>, Pre, PostC),
      Tx(Loaded, FALSE, <<"sig1">>, << >>, << >>),
      Tx(Loaded, FALSE, << >>, Pre, PostA),
      Tx(NotLoaded, FALSE, <<"sig1">>, Pre, PostA),
      Tx(LoadedWritable, TRUE, <<"sig1">>, Pre, PostB) }

TxNarrow == {TxBase, TxFailed}

CompiledKinds == {"UiCompiled", "Compiled"}

\* Vault indices at positions 5..8 of the account list: all resolvable, all
\* resolvable in the other order, and with an index (200) no list resolves.
V1 == <<2, 4, 5, 7>>
V2 == <<4, 2, 7, 5>>
V3 == <<2, 200, 5, 200>>

\* (discriminator, length) of the payloads.
PayloadShapes ==
    { <<9, 16>>, <<9, 17>>, <<9, 33>>, <<11, 17>>, <<1, 17>>, <<2, 25>>,
      <<3, 17>>, <<3, 33>>, <<0, 17>>, <<9, 1>>, <<9, 0>>,
      <<6, 16>>, <<6, 17>>, <<6, 24>>, <<6, 25>>, <<6, 32>>, <<6, 33>>,
      <<4, 17>>, <<4, 33>>, <<5, 33>>, <<7, 25>>, <<7, 33>> }

AccountLengths == {0, 6, 7, 12, 13, 18}

\* Every payload shape, for a Raydium program, with 7 and with 13 accounts.
IxPayloads ==
    { CompiledIx("UiCompiled", 1, Payload(s[1], Fields, s[2]), Accounts(n, V1)) :
        s \in PayloadShapes, n \in {7, 13} }

\* Every account list, for a Raydium program, with four payloads.
IxAccounts ==
    { CompiledIx(k, 6, Payload(s[1], Fields, s[2]), Accounts(n, v)) :
        k \in CompiledKinds, s \in {<<9, 17>>, <<11, 17>>, <<6, 33>>, <<5, 33>>},
        n \in AccountLengths, v \in {V1, V2, V3} }

\* Every program_id_index: static, loaded, not a Raydium program, out of
\* bounds.
IxPrograms ==
    { CompiledIx(k, p, Payload(s[1], Fields, s[2]), Accounts(7, V1)) :
        k \in CompiledKinds, p \in {0, 1, 3, 6, 7, 8, 200},
        s \in {<<9, 17>>, <<9, 16>>} }

IxBadData ==
    { BadDataIx(k, p, Accounts(7, V1)) : k \in CompiledKinds, p \in {1, 3} }

Opt(S) == {<< >>} \cup {<<x>> : x \in S}

IxParsed ==
    { ParsedIx(ty, pid, pin, pout, amt, amt) :
        ty \in {<<"swap">>, <<"transfer">>}, pid \in Opt({AMM_V4, SYSTEM}),
        pin \in Opt({2, 200}), pout \in Opt({4}), amt \in Opt({111}) }
    \cup { ParsedIx(<< >>, <<AMM_V4>>, <<2>>, <<4>>, <<111>>, << >>),
           ParsedIx(<<"swap">>, <<AMM_V4>>, <<2>>, <<4>>, << >>, <<300>>),
           ParsedNotDictIx }

\* An account list whose vaults are all static keys, for a transaction
\* without loaded addresses.
IxStatic ==
    { CompiledIx("UiCompiled", 1, Payload(s[1], Fields, s[2]), Accounts(7, <<2, 0, 0, 2>>)) :
        s \in {<<9, 17>>, <<11, 17>>} }

IxWide ==
    IxPayloads \cup IxAccounts \cup IxPrograms \cup IxBadData \cup IxParsed
    \cup IxStatic

\* A well-formed swap; four instructions of a Raydium program that cannot be
\* decoded (truncated payload, unknown discriminator, too few accounts, an
\* unresolvable vault index); a swap of another program; a structured swap.
GoodSwapIx     == CompiledIx("UiCompiled", 1, Payload(9, Fields, 17), Accounts(7, V1))
TruncatedIx    == CompiledIx("UiCompiled", 1, Payload(9, Fields, 16), Accounts(7, V1))
UnknownDiscIx  == CompiledIx("UiCompiled", 1, Payload(3, Fields, 17), Accounts(7, V1))
FewAccountsIx  == CompiledIx("Compiled", 1, Payload(9, Fields, 17), Accounts(6, V1))
UnresolvableIx == CompiledIx("UiCompiled", 6, Payload(9, Fields, 17), Accounts(7, V3))
OtherProgIx    == CompiledIx("UiCompiled", 3, Payload(9, Fields, 17), Accounts(7, V1))
ParsedSwapIx   == ParsedIx(<<"swap">>, <<AMM_V4>>, <<2>>, <<4>>, <<111>>, <<300>>)

IxNarrow ==
    { GoodSwapIx, TruncatedIx, UnknownDiscIx, FewAccountsIx, UnresolvableIx,
      OtherProgIx, ParsedSwapIx }

Slots == {7, 316719543}


----------------------------------------------------------------------------
(* Bounds of the walk over a block. *)

MaxTx      == 2     \* transactions of a block
MaxIx      == 2     \* top-level instructions of a transaction
MaxSets    == 2     \* inner-instruction groups of a transaction
MaxInnerIx == 1     \* instructions of an inner-instruction group
MaxInstr   == 3     \* instructions of a block (caps instruction_count)

----------------------------------------------------------------------------
(* History of the instructions consumed, in the terms of the claims.       *)

PayloadOf(i) == B58Decode(i.data)

Resolvable(index, account_keys) == index >= 0 /\ index < Len(account_keys)

IsRaydiumCompiled(i, account_keys) ==
    /\ i.kind \in CompiledKinds
    /\ Resolvable(i.program_id_index, account_keys)
    /\ account_keys[i.program_id_index + 1] \in RAYDIUM_PROGRAMS

\* A Raydium instruction that cannot be decoded: undecodable or short payload,
\* unknown discriminator, too few accounts, or a vault index that resolves
\* under no layout family.
FailsToDecode(i, account_keys) ==
    /\ IsRaydiumCompiled(i, account_keys)
    /\ LET p == PayloadOf(i) IN
       \/ ~p.ok
       \/ Len(p.val) < 17
       \/ p.val[1] \notin SWAP_INSTRUCTION_DISCRIMINATOR
       \/ Len(i.accounts) < 7
       \/ /\ \E k \in 6..7 : ~Resolvable(i.accounts[k], account_keys)
          /\ Len(i.accounts) >= 9
                => \E k \in 8..9 : ~Resolvable(i.accounts[k], account_keys)

\* A well-formed standard swap: a Raydium program, a standard discriminator, a
\* full payload, 7 to 12 accounts, resolvable vaults, a signed transaction.
WellFormedSwap(i, t, account_keys) ==
    /\ IsRaydiumCompiled(i, account_keys)
    /\ Len(i.accounts) \in 7..12
    /\ \A k \in 6..7 : Resolvable(i.accounts[k], account_keys)
    /\ t.signatures # << >>
    /\ LET p == PayloadOf(i) IN
       /\ p.ok
       /\ Len(p.val) >= 17
       /\ p.val[1] \in {1, 2, 9, 11}

Classify(i, t, account_keys) ==
    IF WellFormedSwap(i, t, account_keys) THEN "good"
    ELSE IF FailsToDecode(i, account_keys) THEN "bad"
    ELSE "other"

----------------------------------------------------------------------------
(* The actions. *)

Init ==
    /\ pc = "start"
    /\ slot \in Slots
    /\ tx_index = 0
    /\ tx = NoTx
    /\ was_successful = FALSE
    /\ all_account_keys = << >>
    /\ set_index = 0
    /\ ix_index = 0
    /\ ix = NoIx
    /\ level = "none"
    /\ yielded = None
    /\ branch = "none"
    /\ swaps_found = 0
    /\ instruction_count = 0
    /\ failed_swaps = [prog \in RAYDIUM_PROGRAMS |-> 0]
    /\ tx_flags = {}
    /\ seen = [good |-> 0, bad |-> 0, other |-> 0]

\* What a step that processes no instruction leaves alone.
NoInstruction ==
    /\ ix' = NoIx
    /\ level' = "none"
    /\ yielded' = None
    /\ branch' = "none"
    /\ UNCHANGED <<slot, swaps_found, instruction_count, failed_swaps, seen>>

\* Lines 75-77: no transactions, parse_block returns at once.
EmptyBlock ==
    /\ pc = "start"
    /\ pc' = "done"
    /\ NoInstruction
    /\ UNCHANGED <<tx_index, tx, was_successful, all_account_keys, set_index,
                   ix_index, tx_flags>>

\* Lines 79-83: the block has a transaction, the loop is entered.
EnterBlock ==
    /\ pc = "start"
    /\ pc' = "next_tx"
    /\ NoInstruction
    /\ UNCHANGED <<tx_index, tx, was_successful, all_account_keys, set_index,
                   ix_index, tx_flags>>

\* Lines 84-85: an entry that is None (or has no transaction or meta) is
\* skipped.
SkipTx ==
    /\ pc = "next_tx"
    /\ tx_index < MaxTx
    /\ tx_index' = tx_index + 1
    /\ NoInstruction
    /\ UNCHANGED <<pc, tx, was_successful, all_account_keys, set_index,
                   ix_index, tx_flags>>

\* Line 91: a transaction whose meta is None; meta.err raises AttributeError
\* outside every try block.
TxWithoutMeta ==
    /\ pc = "next_tx"
    /\ tx_index < MaxTx
    /\ pc' = "raised"
    /\ NoInstruction
    /\ UNCHANGED <<tx_index, tx, was_successful, all_account_keys, set_index,
                   ix_index, tx_flags>>

\* Lines 87-99: the next transaction, its success flag and its account list.
BeginTx(txs) ==
    /\ pc = "next_tx"
    /\ tx_index < MaxTx
    /\ \E t \in txs :
        /\ tx' = t
        /\ was_successful' = ~t.err
        /\ all_account_keys' = resolve_account_keys(t)
    /\ pc' = "main"
    /\ ix_index' = 0
    /\ tx_flags' = {}
    /\ NoInstruction
    /\ UNCHANGED <<tx_index, set_index>>

\* One pass of a loop over instructions (lines 102-125 and 130-156).
Process(i, lvl) ==
    \E r \in {process_instruction(i, tx, Context(slot, tx_index, ix_index, was_successful, all_account_keys))} :
        /\ ix' = i
        /\ level' = lvl
        /\ instruction_count' = instruction_count + 1
        /\ yielded' = r.swap
        /\ branch' = r.kind
        /\ swaps_found' = IF r.kind = "yield" THEN swaps_found + 1
                          ELSE swaps_found
        /\ failed_swaps' = IF r.kind = "failed"
                           THEN [failed_swaps EXCEPT ![r.program_id] = @ + 1]
                           ELSE failed_swaps
        /\ pc' = IF r.kind = "raise" THEN "raised" ELSE pc
        /\ ix_index' = ix_index + 1
        /\ tx_flags' = tx_flags \cup {s.was_successful : s \in Range(r.swap)}
        /\ seen' = LET cls == Classify(i, tx, all_account_keys)
                   IN  [seen EXCEPT ![cls] = @ + 1]
        /\ UNCHANGED <<slot, tx_index, tx, was_successful, all_account_keys,
                       set_index>>

\* Lines 102-125: the next top-level instruction.
ProcessMain(ixs, budget) ==
    /\ pc = "main"
    /\ ix_index < MaxIx
    /\ instruction_count < budget
    /\ \E i \in ixs : Process(i, "main")

\* Line 128: the top-level instructions are exhausted.
EndMain ==
    /\ pc = "main"
    /\ pc' = "inner_sets"
    /\ set_index' = 0
    /\ NoInstruction
    /\ UNCHANGED <<tx_index, tx, was_successful, all_account_keys, ix_index,
                   tx_flags>>

\* Lines 129-130: the next inner-instruction group.
BeginSet ==
    /\ pc = "inner_sets"
    /\ set_index < MaxSets
    /\ pc' = "inner"
    /\ ix_index' = 0
    /\ NoInstruction
    /\ UNCHANGED <<tx_index, tx, was_successful, all_account_keys, set_index,
                   tx_flags>>

\* Lines 130-156: the next instruction of the group.
ProcessInner(ixs, budget) ==
    /\ pc = "inner"
    /\ ix_index < MaxInnerIx
    /\ instruction_count < budget
    /\ \E i \in ixs : Process(i, "inner")

\* The exhausted group left as the current one, so that it is walked again.
EndSet_same_group ==
    /\ pc = "inner"
    /\ pc' = "inner_sets"
    /\ set_index' = set_index
    /\ NoInstruction
    /\ UNCHANGED <<tx_index, tx, was_successful, all_account_keys, ix_index,
                   tx_flags>>

\* The group is exhausted.
EndSet ==
    /\ pc = "inner"
    /\ pc' = "inner_sets"
    /\ set_index' = set_index + 1
    /\ NoInstruction
    /\ UNCHANGED <<tx_index, tx, was_successful, all_account_keys, ix_index,
                   tx_flags>>

\* The groups are exhausted (or meta.inner_instructions is None): the
\* transaction is done.
EndTx ==
    /\ pc = "inner_sets"
    /\ pc' = "next_tx"
    /\ tx_index' = tx_index + 1
    /\ NoInstruction
    /\ UNCHANGED <<tx, was_successful, all_account_keys, set_index, ix_index,
                   tx_flags>>

\* Lines 158-164: the transactions are exhausted, the statistics are printed.
EndBlock ==
    /\ pc = "next_tx"
    /\ tx_index >= 1
    /\ pc' = "done"
    /\ NoInstruction
    /\ UNCHANGED <<tx_index, tx, was_successful, all_account_keys, set_index,
                   ix_index, tx_flags>>

\* Blocks of up to MaxTx transactions over the narrow input sets.
Next ==
    \/ EmptyBlock
    \/ EnterBlock
    \/ SkipTx
    \/ TxWithoutMeta
    \/ BeginTx(TxNarrow)
    \/ ProcessMain(IxNarrow, MaxInstr)
    \/ EndMain
    \/ BeginSet
    \/ ProcessInner(IxNarrow, MaxInstr)
    \/ EndSet
    \/ EndTx
    \/ EndBlock

Spec == Init /\ [][Next]_vars

\* Blocks that hold a single instruction, top-level or inner, over the wide
\* input sets.
NextIx ==
    \/ EmptyBlock
    \/ EnterBlock
    \/ SkipTx
    \/ TxWithoutMeta
    \/ BeginTx(TxWide)
    \/ ProcessMain(IxWide, 1)
    \/ EndMain
    \/ BeginSet
    \/ ProcessInner(IxWide, 1)
    \/ EndSet
    \/ EndTx
    \/ EndBlock

SpecIx == Init /\ [][NextIx]_vars


----------------------------------------------------------------------------
(* The claims.  After a pass of an instruction loop, ix is the instruction *)
(* it processed, tx its transaction and yielded the record it produced.    *)

Stepped == level # "none"

IsCompiled(i) == i.kind \in CompiledKinds

\* The vault indices the pipeline resolved for an instruction.
ResolvedVaults(i) ==
    IF i.kind = "UiParsed" THEN determine_pool_indices_for_parsed(i)
    ELSE determine_pool_indices_generic(i)

\* The instruction names its two vaults (a structured one by its hints).
HasVaults(i) ==
    /\ ResolvedVaults(i).pool_in_index >= 0
    /\ ResolvedVaults(i).pool_out_index >= 0

EntriesAt(balances, index) ==
    {k \in 1..Len(balances) : balances[k].account_index = index}

\* The amount of the snapshot's entry of an index, 0 when it has none.
AmountAt(balances, index) ==
    IF EntriesAt(balances, index) = {} THEN 0
    ELSE PyInt(balances[CHOOSE k \in EntriesAt(balances, index) : TRUE].amount)

Delta(t, index) ==
    AmountAt(t.post_token_balances, index) - AmountAt(t.pre_token_balances, index)

Abs(n) == IF n < 0 THEN -n ELSE n

\* The names a vault index can stand for: the account key it resolves to and
\* the mint of its post-balance entries.
KeyNames(index) ==
    IF Resolvable(index, all_account_keys) THEN {all_account_keys[index + 1]}
    ELSE {}

MintNames(index) ==
    {tx.post_token_balances[k].mint : k \in EntriesAt(tx.post_token_balances, index)}

VaultNames(index) == KeyNames(index) \cup MintNames(index)

\* The record's input side is the vault index a and its output side b.
HasRoles(s, a, b) ==
    /\ s.mint_in \in VaultNames(a)
    /\ s.mint_out \in VaultNames(b)
    /\ s.post_pool_balance_mint_in = AmountAt(tx.post_token_balances, a)
    /\ s.post_pool_balance_mint_out = AmountAt(tx.post_token_balances, b)

(* C1: partial-failure isolation.  An instruction of a Raydium program that *)
(* cannot be decoded yields nothing and leaves the walk in its loop; only a *)
(* transaction without meta makes parse_block raise; a well-formed swap     *)
(* yields its record whatever was processed before it; and a block of one   *)
(* well-formed swap and one undecodable instruction yields exactly one      *)
(* RaydiumSwap.                                                             *)
C1_PartialFailureIsolation ==
    /\ (Stepped /\ FailsToDecode(ix, all_account_keys))
          => (yielded = None /\ pc \in {"main", "inner"})
    /\ pc = "raised" => ~Stepped
    /\ (Stepped /\ WellFormedSwap(ix, tx, all_account_keys)) => yielded # None
    /\ (pc = "done" /\ seen = [good |-> 1, bad |-> 1, other |-> 0])
          => swaps_found = 1

C1_Witness ==
    /\ pc = "done"
    /\ seen = [good |-> 1, bad |-> 1, other |-> 0]
    /\ swaps_found = 1
    /\ instruction_count = 2

(* C2: direction normalization.  With deltaIn and deltaOut the post - pre   *)
(* balance changes at the resolved input and output vault indices, a record *)
(* has its roles reversed and amount_in = |deltaOut|, amount_out = |deltaIn| *)
(* when deltaIn < 0 < deltaOut, and keeps its roles with amount_in =        *)
(* |deltaIn|, amount_out = |deltaOut| otherwise.                            *)
C2_DirectionNormalization ==
    (Stepped /\ yielded # None /\ HasVaults(ix)) =>
        LET s        == yielded[1]
            v        == ResolvedVaults(ix)
            deltaIn  == Delta(tx, v.pool_in_index)
            deltaOut == Delta(tx, v.pool_out_index)
        IN  IF deltaIn < 0 /\ 0 < deltaOut
            THEN /\ HasRoles(s, v.pool_out_index, v.pool_in_index)
                 /\ s.amount_in = Abs(deltaOut)
                 /\ s.amount_out = Abs(deltaIn)
            ELSE /\ HasRoles(s, v.pool_in_index, v.pool_out_index)
                 /\ s.amount_in = Abs(deltaIn)
                 /\ s.amount_out = Abs(deltaOut)

(* C3: the vault positions follow the layout family of the payload: a       *)
(* compiled instruction of the standard family (discriminator 1, 2, 9, 11,  *)
(* at least 17 bytes) has its vaults at accounts[5] and accounts[6] for     *)
(* every account-list length, one of the concentrated-liquidity family      *)
(* (4..7, at least 33 bytes) at accounts[7] and accounts[8], and no record  *)
(* is produced from too few accounts for the family.                        *)
C3_VaultsByFamily ==
    (Stepped /\ IsCompiled(ix) /\ PayloadOf(ix).ok /\ PayloadOf(ix).val # << >>) =>
        LET data     == PayloadOf(ix).val
            n        == Len(ix.accounts)
            standard == data[1] \in {1, 2, 9, 11} /\ Len(data) >= 17
            cl       == data[1] \in CL_DISCRIMINATOR /\ Len(data) >= 33
            names(a, b) == VaultNames(ix.accounts[a + 1]) \cup VaultNames(ix.accounts[b + 1])
        IN  /\ (standard /\ n < 7) => yielded = None
            /\ (cl /\ n < 9) => yielded = None
            /\ (standard /\ yielded # None) =>
                  {yielded[1].mint_in, yielded[1].mint_out} \subseteq names(5, 6)
            /\ (cl /\ yielded # None) =>
                  {yielded[1].mint_in, yielded[1].mint_out} \subseteq names(7, 8)

\* The program_id_index and the account key of an index, by the region of
\* the index: static, loaded writable, loaded readonly.
RegionKey(t, i) ==
    LET S == Len(t.static)
        W == IF t.loaded.present THEN Len(t.loaded.writable) ELSE 0
        R == IF t.loaded.present THEN Len(t.loaded.readonly) ELSE 0
    IN  IF i >= 0 /\ i < S THEN <<t.static[i + 1]>>
        ELSE IF S <= i /\ i < S + W THEN <<t.loaded.writable[i - S + 1]>>
        ELSE IF S + W <= i /\ i < S + W + R
        THEN <<t.loaded.readonly[i - S - W + 1]>>
        ELSE << >>

(* C4: account resolution.  Every index parse_block uses of a compiled      *)
(* instruction resolves in static ++ writable ++ readonly: the instruction  *)
(* is taken for a Raydium instruction exactly when the key of its           *)
(* program_id_index, by region, is a Raydium program, and the mints of its  *)
(* record are the keys, by region, of its two vault indices; a transaction  *)
(* without loaded addresses resolves in its static keys.                    *)
C4_AccountResolution ==
    (Stepped /\ IsCompiled(ix)) =>
        /\ branch \in {"yield", "failed"}
              <=> \E k \in Range(RegionKey(tx, ix.program_id_index)) :
                      k \in RAYDIUM_PROGRAMS
        /\ yielded # None =>
              LET v == ResolvedVaults(ix)
              IN  /\ <<yielded[1].mint_in>> = RegionKey(tx, v.pool_in_index)
                  /\ <<yielded[1].mint_out>> = RegionKey(tx, v.pool_out_index)

\* A record whose program is a loaded readonly key and whose vaults are a
\* loaded writable and a loaded readonly key.
C4_Witness ==
    /\ Stepped /\ IsCompiled(ix) /\ yielded # None
    /\ ix.program_id_index = 6
    /\ yielded[1].mint_in = "vaultC"
    /\ yielded[1].mint_out = "vaultD"

(* C5: the limit side follows the layout family: a record of an exact-input *)
(* instruction (discriminator 9) has limit_side "mint_out", one of an       *)
(* exact-output instruction (discriminator 11) has limit_side "mint_in".    *)
C5_LimitSideByFamily ==
    (Stepped /\ IsCompiled(ix) /\ yielded # None) =>
        LET data == PayloadOf(ix).val
        IN  /\ data[1] = 9 => yielded[1].limit_side = "mint_out"
            /\ data[1] = 11 => yielded[1].limit_side = "mint_in"

(* C6: for a compiled instruction with 13 accounts and discriminator 6, a   *)
(* payload of at least 25 bytes has its limit amount read at bytes 17..24,  *)
(* and a payload shorter than 17 bytes is rejected.                         *)
C6_SwapByInputOffsets ==
    (Stepped /\ IsCompiled(ix) /\ Len(ix.accounts) = 13 /\ PayloadOf(ix).ok) =>
        LET data == PayloadOf(ix).val
        IN  (data # << >> /\ data[1] = 6) =>
               /\ (Len(data) >= 25 /\ yielded # None) =>
                     yielded[1].limit_amount = FromBytesLittle(Slice(data, 17, 25))
               /\ Len(data) < 17 => yielded = None

\* The program of an instruction is not a Raydium program: not in the set,
\* an out-of-bounds program_id_index, or no programId field.
NotRegistered(i) ==
    IF i.kind = "UiParsed"
    THEN \/ ~i.parsed.is_dict
         \/ "programId" \notin DOMAIN i.parsed.fields
         \/ i.parsed.fields["programId"] \notin RAYDIUM_PROGRAMS
    ELSE \/ ~Resolvable(i.program_id_index, all_account_keys)
         \/ all_account_keys[i.program_id_index + 1] \notin RAYDIUM_PROGRAMS

(* C7: an instruction whose program is not a Raydium program yields no      *)
(* record, is not counted as a failed swap and does not make parse_block    *)
(* raise.                                                                   *)
C7_UnregisteredSkipped ==
    (Stepped /\ NotRegistered(ix)) =>
        /\ yielded = None
        /\ branch = "skip"
        /\ pc \in {"main", "inner"}

\* A full swap payload with resolvable vaults, for the system program.
C7_Witness ==
    /\ Stepped /\ NotRegistered(ix) /\ IsCompiled(ix)
    /\ ix.program_id_index = 3
    /\ is_valid_swap_instruction(ix)
    /\ yielded = None

(* C8: no record is produced when the transaction has no signature, when    *)
(* the post-balance snapshot has no entry at a resolved vault index, or     *)
(* when the transaction has neither pre nor post token balances; the mints  *)
(* of a record are the mint fields of the post-balance entries at the two   *)
(* vault indices.                                                           *)
C8_AssemblerFailures ==
    (Stepped /\ yielded # None /\ HasVaults(ix)) =>
        LET v == ResolvedVaults(ix)
            s == yielded[1]
        IN  /\ tx.signatures # << >>
            /\ tx.pre_token_balances # << >> \/ tx.post_token_balances # << >>
            /\ \/ /\ s.mint_in \in MintNames(v.pool_in_index)
                  /\ s.mint_out \in MintNames(v.pool_out_index)
               \/ /\ s.mint_in \in MintNames(v.pool_out_index)
                  /\ s.mint_out \in MintNames(v.pool_in_index)

(* C9: a structured swap instruction of a Raydium program without a         *)
(* poolInIndex or a poolOutIndex field produces no RaydiumSwap.             *)
C9_ParsedWithoutHints ==
    (/\ Stepped
     /\ ix.kind = "UiParsed"
     /\ ~NotRegistered(ix)
     /\ Get(ix.parsed.fields, "type", "") = "swap"
     /\ \/ "poolInIndex" \notin DOMAIN ix.parsed.fields
        \/ "poolOutIndex" \notin DOMAIN ix.parsed.fields)
    => yielded = None

(* C10: a record carries the context of its transaction: the slot argument, *)
(* the transaction's position in the block and was_successful = (meta.err   *)
(* is absent); the records of one transaction agree on was_successful, and  *)
(* a well-formed swap of a failed transaction is emitted.                   *)
C10_TransactionContext ==
    /\ (Stepped /\ yielded # None) =>
          /\ yielded[1].slot = slot
          /\ yielded[1].index_in_slot = tx_index
          /\ yielded[1].was_successful = ~tx.err
    /\ Cardinality(tx_flags) <= 1
    /\ (Stepped /\ tx.err /\ WellFormedSwap(ix, tx, all_account_keys))
          => yielded # None

\* The second record of a failed transaction that is second in its block.
C10_Witness ==
    /\ Stepped /\ yielded # None
    /\ tx.err
    /\ tx_index = 1
    /\ yielded[1].index_in_slot = 1
    /\ ~yielded[1].was_successful
    /\ tx_flags = {FALSE}
    /\ level = "inner"
    /\ swaps_found >= 2

----------------------------------------------------------------------------
(* The place of the walk in the enumeration of the block: the transaction, *)
(* the part of it (0 between transactions, 1 its top-level instructions, 2 *)
(* its inner-instruction groups), the group and the instruction.           *)

Part ==
    IF pc = "main" THEN 1 ELSE IF pc \in {"inner_sets", "inner"} THEN 2 ELSE 0

Cursor ==
    <<tx_index,
      Part,
      IF Part = 2 THEN set_index ELSE 0,
      IF pc \in {"main", "inner"} THEN ix_index ELSE 0>>

RECURSIVE LexLeq(_, _)
LexLeq(a, b) ==
    \/ a = << >>
    \/ Head(a) < Head(b)
    \/ Head(a) = Head(b) /\ LexLeq(Tail(a), Tail(b))

====
